---- MODULE Spec2Model ----
(***************************************************************************)
(* IP geolocation: the provider adapters, the resolver (get_location and   *)
(* get_location_with_fallback) of ip_geolocation.py and the /geolocate     *)
(* endpoint of geolocation_service.py.                                     *)
(*                                                                         *)
(* A JSON / Python value is a record [t, v]: t is its type ("null", "str", *)
(* "num", "obj"), v its text.  A dict is a function from its keys to such  *)
(* values.  A raised exception is the record [exc |-> <class name>].       *)
(***************************************************************************)
EXTENDS Integers, Sequences, FiniteSets, TLC

\* Longest provider list handed to get_location_with_fallback.
MaxProviders == 2

----------------------------------------------------------------------------
(* Values *)

None == [t |-> "null"]
S(x) == [t |-> "str", v |-> x]
N(x) == [t |-> "num", v |-> x]
\* A JSON object with one member (time_zone.name, time_zone.id, error.info).
O(x) == [t |-> "obj", v |-> x]

EmptyDict == [k \in {} |-> None]

\* dict.get(key) / dict.get(key, default)
Get(d, k) == IF k \in DOMAIN d THEN d[k] ELSE None
GetDefault(d, k, dflt) == IF k \in DOMAIN d THEN d[k] ELSE dflt

Raise(e) == [exc |-> e]
IsExc(x) == "exc" \in DOMAIN x

\* Python truthiness of a value: `not x` is Falsy(x).
Falsy(x) == \/ x.t = "null"
            \/ x.t = "str" /\ x.v = ""
            \/ x.t = "num" /\ x.v = "0"

\* The texts float() parses.
NumericText == {"37.4", "-122.0", "0"}

\* float(x): a number stays, a numeric text is parsed, anything else raises.
ToFloat(x) ==
    CASE x.t = "num" -> x
      [] x.t = "str" -> IF x.v \in NumericText THEN N(x.v) ELSE Raise("ValueError")
      [] OTHER -> Raise("TypeError")

\* text.split(','), on the texts a 'loc' member takes in this model.
Split(s) ==
    CASE s = "37.4,-122.0" -> <<"37.4", "-122.0">>
      [] s = "37.4,abc" -> <<"37.4", "abc">>
      [] s = "37.4,-122.0,5" -> <<"37.4", "-122.0", "5">>
      [] OTHER -> <<s>>

\* x.get('name') of the member x of a body, x defaulting to {} when absent:
\* data.get(key, {}).get(member)
GetMember(d, k) ==
    IF k \notin DOMAIN d THEN None
    ELSE IF d[k].t = "obj" THEN S(d[k].v)
    ELSE Raise("AttributeError")

----------------------------------------------------------------------------
(* What the network can answer to one requests.get + response.json().      *)
(* exc: the exception raised by the request or by the JSON decoding ("" if *)
(* none); shape: the decoded body is a dict or a list; data: the dict.     *)

Raises(e) == [exc |-> e, shape |-> "dict", data |-> EmptyDict]
Body(d) == [exc |-> "", shape |-> "dict", data |-> d]
ListBody == [exc |-> "", shape |-> "list", data |-> EmptyDict]

TransportFaults == {Raises("ConnectionError"), Raises("Timeout"), Raises("JSONDecodeError")}

IpApiBodies ==
    { [status |-> S("success"), lat |-> N("37.4"), lon |-> N("-122.0"), city |-> S("Mountain View")],
      [status |-> S("success"), lon |-> N("-122.0")],
      [status |-> S("success"), lat |-> None, lon |-> None],
      [status |-> S("success"), lat |-> N("37.4")],
      [status |-> S("fail"), message |-> S("invalid query")],
      [status |-> S("fail")],
      [message |-> S("invalid query")] }

IpInfoBodies ==
    { [loc |-> S("37.4,-122.0"), city |-> S("Mountain View")],
      [loc |-> S("37.4,abc")],
      [loc |-> S("37.4,-122.0,5")],
      [loc |-> S("")],
      [loc |-> None],
      [city |-> S("Mountain View")] }

\* ipgeolocation and abstractapi: latitude / longitude members, a nested
\* time zone.
LatLonBodies(tz) ==
    { [latitude |-> S("37.4"), longitude |-> S("-122.0")] @@ (tz :> O("UTC")),
      [latitude |-> N("37.4"), longitude |-> N("-122.0")],
      [latitude |-> S("37.4"), longitude |-> S("-122.0")] @@ (tz :> S("UTC")),
      [latitude |-> None, longitude |-> None],
      [latitude |-> S("37.4")],
      [latitude |-> S("n/a"), longitude |-> S("n/a")],
      [message |-> S("invalid key")] }

IpStackBodies ==
    { [latitude |-> N("37.4"), longitude |-> N("-122.0"), time_zone |-> O("UTC")],
      [latitude |-> N("37.4"), longitude |-> N("-122.0")],
      [latitude |-> None, longitude |-> None],
      [latitude |-> N("37.4")],
      [success |-> S("false"), error |-> O("invalid access key")],
      [success |-> S("false"), error |-> S("invalid access key")],
      [success |-> S("false")] }

BodiesOf(provider) ==
    CASE provider = "ip-api" -> IpApiBodies
      [] provider = "ipinfo" -> IpInfoBodies
      [] provider = "ipgeolocation" -> LatLonBodies("time_zone")
      [] provider = "abstractapi" -> LatLonBodies("timezone")
      [] provider = "ipstack" -> IpStackBodies
      [] OTHER -> {}

Responses(provider) ==
    TransportFaults \cup {ListBody} \cup {Body(d) : d \in BodiesOf(provider)}

----------------------------------------------------------------------------
(* Provider adapters of IPGeolocation.  XxxTry is the body of the try      *)
(* block: it yields the returned dict or the exception raised in it; the   *)
(* adapter is the try block with its except clause.                        *)

IpApiTry(ip_address, resp) ==
    LET data == resp.data IN
    IF resp.exc # "" THEN Raise(resp.exc)
    ELSE IF resp.shape = "list" THEN Raise("TypeError")
    ELSE IF "status" \notin DOMAIN data THEN Raise("KeyError")
    ELSE IF data["status"] = S("success")
         THEN [ip |-> ip_address,
               latitude |-> Get(data, "lat"),
               longitude |-> Get(data, "lon"),
               city |-> Get(data, "city"),
               country |-> Get(data, "country"),
               country_code |-> Get(data, "countryCode"),
               region |-> Get(data, "regionName"),
               timezone |-> Get(data, "timezone"),
               isp |-> Get(data, "isp"),
               provider |-> S("ip-api")]
         ELSE [error |-> GetDefault(data, "message", S("Unknown error"))]

\* Mutation: the except clause returns str(e) without the provider label.
_get_location_ipapi_unannotated(ip_address, resp) ==
    LET r == IpApiTry(ip_address, resp) IN
    IF IsExc(r) THEN [error |-> S(r.exc)] ELSE r

_get_location_ipapi(ip_address, resp) ==
    LET r == IpApiTry(ip_address, resp) IN
    IF IsExc(r) THEN [error |-> S("IP-API error: " \o r.exc)] ELSE r

IpInfoTry(ip_address, resp) ==
    LET data == resp.data IN
    IF resp.exc # "" THEN Raise(resp.exc)
    ELSE IF resp.shape = "dict" /\ "loc" \in DOMAIN data
         THEN IF data["loc"].t # "str" THEN Raise("AttributeError")
              ELSE LET parts == Split(data["loc"].v) IN
                   IF Len(parts) # 2 THEN Raise("ValueError")
                   ELSE IF IsExc(ToFloat(S(parts[1]))) THEN ToFloat(S(parts[1]))
                   ELSE IF IsExc(ToFloat(S(parts[2]))) THEN ToFloat(S(parts[2]))
                   ELSE [ip |-> ip_address,
                         latitude |-> ToFloat(S(parts[1])),
                         longitude |-> ToFloat(S(parts[2])),
                         city |-> Get(data, "city"),
                         country |-> Get(data, "country"),
                         region |-> Get(data, "region"),
                         timezone |-> Get(data, "timezone"),
                         org |-> Get(data, "org"),
                         provider |-> S("ipinfo")]
         ELSE [error |-> S("Location data not available")]

_get_location_ipinfo(ip_address, resp) ==
    LET r == IpInfoTry(ip_address, resp) IN
    IF IsExc(r) THEN [error |-> S("IPInfo error: " \o r.exc)] ELSE r

IpGeolocationTry(ip_address, resp) ==
    LET data == resp.data IN
    IF resp.exc # "" THEN Raise(resp.exc)
    ELSE IF resp.shape = "dict" /\ "latitude" \in DOMAIN data
         THEN IF IsExc(ToFloat(data["latitude"])) THEN ToFloat(data["latitude"])
              ELSE IF "longitude" \notin DOMAIN data THEN Raise("KeyError")
              ELSE IF IsExc(ToFloat(data["longitude"])) THEN ToFloat(data["longitude"])
              ELSE IF IsExc(GetMember(data, "time_zone")) THEN GetMember(data, "time_zone")
              ELSE [ip |-> ip_address,
                    latitude |-> ToFloat(data["latitude"]),
                    longitude |-> ToFloat(data["longitude"]),
                    city |-> Get(data, "city"),
                    country |-> Get(data, "country_name"),
                    country_code |-> Get(data, "country_code2"),
                    region |-> Get(data, "state_prov"),
                    timezone |-> GetMember(data, "time_zone"),
                    isp |-> Get(data, "isp"),
                    provider |-> S("ipgeolocation")]
         ELSE [error |-> S("Location data not available")]

_get_location_ipgeolocation(ip_address, resp) ==
    LET r == IpGeolocationTry(ip_address, resp) IN
    IF IsExc(r) THEN [error |-> S("IPGeolocation error: " \o r.exc)] ELSE r

AbstractApiTry(ip_address, resp) ==
    LET data == resp.data IN
    IF resp.exc # "" THEN Raise(resp.exc)
    ELSE IF resp.shape = "dict" /\ "latitude" \in DOMAIN data
         THEN IF IsExc(ToFloat(data["latitude"])) THEN ToFloat(data["latitude"])
              ELSE IF "longitude" \notin DOMAIN data THEN Raise("KeyError")
              ELSE IF IsExc(ToFloat(data["longitude"])) THEN ToFloat(data["longitude"])
              ELSE IF IsExc(GetMember(data, "timezone")) THEN GetMember(data, "timezone")
              ELSE [ip |-> ip_address,
                    latitude |-> ToFloat(data["latitude"]),
                    longitude |-> ToFloat(data["longitude"]),
                    city |-> Get(data, "city"),
                    country |-> Get(data, "country"),
                    country_code |-> Get(data, "country_code"),
                    region |-> Get(data, "region"),
                    timezone |-> GetMember(data, "timezone"),
                    provider |-> S("abstractapi")]
         ELSE [error |-> S("Location data not available")]

_get_location_abstractapi(ip_address, resp) ==
    LET r == AbstractApiTry(ip_address, resp) IN
    IF IsExc(r) THEN [error |-> S("AbstractAPI error: " \o r.exc)] ELSE r

IpStackTry(ip_address, resp) ==
    LET data == resp.data IN
    IF resp.exc # "" THEN Raise(resp.exc)
    ELSE IF resp.shape = "dict" /\ "latitude" \in DOMAIN data
         THEN IF "longitude" \notin DOMAIN data THEN Raise("KeyError")
              ELSE IF IsExc(GetMember(data, "time_zone")) THEN GetMember(data, "time_zone")
              ELSE [ip |-> ip_address,
                    latitude |-> data["latitude"],
                    longitude |-> data["longitude"],
                    city |-> Get(data, "city"),
                    country |-> Get(data, "country_name"),
                    country_code |-> Get(data, "country_code"),
                    region |-> Get(data, "region_name"),
                    timezone |-> GetMember(data, "time_zone"),
                    provider |-> S("ipstack")]
         ELSE IF resp.shape = "list" THEN Raise("AttributeError")
         ELSE IF "error" \notin DOMAIN data THEN [error |-> S("Unknown error")]
         ELSE IF IsExc(GetMember(data, "error")) THEN GetMember(data, "error")
         ELSE [error |-> GetMember(data, "error")]

_get_location_ipstack(ip_address, resp) ==
    LET r == IpStackTry(ip_address, resp) IN
    IF IsExc(r) THEN [error |-> S("IPStack error: " \o r.exc)] ELSE r

----------------------------------------------------------------------------
(* The resolver *)

\* self.providers: the names the registry maps to an adapter.
Registry == {"ip-api", "ipinfo", "ipgeolocation", "abstractapi", "ipstack"}

\* Adapters whose api_key parameter has no default.
KeyRequired == {"abstractapi", "ipstack"}

\* self.providers[provider](ip_address, **kwargs): binding the arguments
\* raises TypeError when a parameter without default is not supplied.
CallAdapter(ip_address, provider, kwargs, resp) ==
    IF provider \in KeyRequired /\ "api_key" \notin kwargs THEN Raise("TypeError")
    ELSE CASE provider = "ip-api" -> _get_location_ipapi(ip_address, resp)
           [] provider = "ipinfo" -> _get_location_ipinfo(ip_address, resp)
           [] provider = "ipgeolocation" -> _get_location_ipgeolocation(ip_address, resp)
           [] provider = "abstractapi" -> _get_location_abstractapi(ip_address, resp)
           [] provider = "ipstack" -> _get_location_ipstack(ip_address, resp)

\* Whether the call reaches the adapter's requests.get.
IssuesRequest(provider, kwargs) ==
    /\ provider \in Registry
    /\ provider \in KeyRequired => "api_key" \in kwargs

\* Mutation: no membership test; the registry lookup raises KeyError, which
\* the except clause reports.
get_location_unchecked(ip_address, provider, kwargs, resp) ==
    IF provider \notin Registry
    THEN [error |-> S("KeyError: " \o provider)]
    ELSE LET r == CallAdapter(ip_address, provider, kwargs, resp) IN
         IF IsExc(r) THEN [error |-> S(r.exc)] ELSE r

\* Mutation: no try/except around the adapter call.
get_location_uncaught(ip_address, provider, kwargs, resp) ==
    IF provider \notin Registry
    THEN [error |-> S("Unknown provider: " \o provider)]
    ELSE CallAdapter(ip_address, provider, kwargs, resp)

get_location(ip_address, provider, kwargs, resp) ==
    IF provider \notin Registry
    THEN [error |-> S("Unknown provider: " \o provider)]
    ELSE LET r == CallAdapter(ip_address, provider, kwargs, resp) IN
         IF IsExc(r) THEN [error |-> S(r.exc)] ELSE r

\* Mutation: the test looks at the error key only.
AcceptedIgnoringLatitude(result) == "error" \notin DOMAIN result

\* The test of line 70: no error and a latitude that is not None.
Accepted(result) ==
    /\ "error" \notin DOMAIN result
    /\ Get(result, "latitude") # None

\* Mutation: the stamp also records a note under the error key.
StampWithError(result, provider) ==
    [k \in DOMAIN result \cup {"provider_used", "error"} |->
        IF k = "provider_used" THEN S(provider)
        ELSE IF k = "error" THEN S("fallback used")
        ELSE result[k]]

\* Line 71: result['provider_used'] = provider
Stamp(result, provider) ==
    [k \in DOMAIN result \cup {"provider_used"} |->
        IF k = "provider_used" THEN S(provider) ELSE result[k]]

\* Mutation: the loop variable is returned: the last failed result.
ExhaustedResultLeaking(attempts) ==
    IF attempts = <<>> THEN [error |-> S("All providers failed")]
    ELSE attempts[Len(attempts)].res

\* Line 77: the result once the list is exhausted; attempts is what the
\* loop has tried.
ExhaustedResult(attempts) == [error |-> S("All providers failed")]

\* Mutation: the loop hands an api_key on to get_location.
FallbackKwargsForwarded == {"api_key"}

\* Line 68: self.get_location(ip_address, provider) passes no keyword
\* arguments.
FallbackKwargs == {}

\* Mutation: a rejected provider is tried a second time before the loop
\* moves on.
NextPositionRetryOnce(i, attempts) ==
    IF Len(SelectSeq(attempts, LAMBDA a : a.pos = i)) < 2 THEN i ELSE i + 1

\* Line 66: the for loop moves to the next position of the list; attempts
\* is what the loop has tried.
NextPosition(i, attempts) == i + 1

\* Line 64: the list used when none is given.
DefaultProviders == <<"ip-api", "ipinfo", "ipgeolocation">>

\* get_location_with_fallback as a function of the responses the providers
\* give: resps[i] is what providers[i] answers if it is asked.
RECURSIVE FallbackFrom(_, _, _, _, _)
FallbackFrom(ip_address, provs, resps, i, attempts) ==
    IF i > Len(provs) THEN ExhaustedResult(attempts)
    ELSE LET r == get_location(ip_address, provs[i], {}, resps[i]) IN
         IF Accepted(r) THEN Stamp(r, provs[i])
         ELSE FallbackFrom(ip_address, provs, resps, i + 1,
                           Append(attempts, [pos |-> i, provider |-> provs[i], resp |-> resps[i], res |-> r]))

get_location_with_fallback(ip_address, provs, resps) ==
    FallbackFrom(ip_address, provs, resps, 1, <<>>)

----------------------------------------------------------------------------
(* The /geolocate endpoint and its own two adapters *)

True == [t |-> "bool", v |-> "True"]
False == [t |-> "bool", v |-> "False"]

GeolocationService_get_location_ipapi(ip_address, resp) ==
    LET data == resp.data IN
    IF resp.exc # "" THEN [success |-> False, error |-> S(resp.exc)]
    ELSE IF resp.shape = "list" THEN [success |-> False, error |-> S("TypeError")]
    ELSE IF "status" \notin DOMAIN data THEN [success |-> False, error |-> S("KeyError")]
    ELSE IF data["status"] = S("success")
         THEN [success |-> True,
               ip |-> ip_address,
               latitude |-> Get(data, "lat"),
               longitude |-> Get(data, "lon"),
               city |-> Get(data, "city"),
               country |-> Get(data, "country"),
               region |-> Get(data, "regionName"),
               timezone |-> Get(data, "timezone"),
               provider |-> S("ip-api")]
         ELSE [success |-> False, error |-> GetDefault(data, "message", S("Unknown error"))]

GeolocationService_get_location_ipinfo(ip_address, resp) ==
    LET data == resp.data IN
    IF resp.exc # "" THEN [success |-> False, error |-> S(resp.exc)]
    ELSE IF resp.shape = "dict" /\ "loc" \in DOMAIN data
         THEN IF data["loc"].t # "str" THEN [success |-> False, error |-> S("AttributeError")]
              ELSE LET parts == Split(data["loc"].v) IN
                   IF Len(parts) # 2 THEN [success |-> False, error |-> S("ValueError")]
                   ELSE IF IsExc(ToFloat(S(parts[1]))) \/ IsExc(ToFloat(S(parts[2])))
                        THEN [success |-> False, error |-> S("ValueError")]
                   ELSE [success |-> True,
                         ip |-> ip_address,
                         latitude |-> ToFloat(S(parts[1])),
                         longitude |-> ToFloat(S(parts[2])),
                         city |-> Get(data, "city"),
                         country |-> Get(data, "country"),
                         region |-> Get(data, "region"),
                         timezone |-> Get(data, "timezone"),
                         provider |-> S("ipinfo")]
         ELSE [success |-> False, error |-> S("Location data not available")]

\* Lines 84-88: the IP the request supplies, or the exception raised while
\* reading it.  request.json is what get_json() does: it raises, or yields
\* None, a dict or a list.
SuppliedIp(request) ==
    IF request.method = "POST"
    THEN IF request.json.exc # "" THEN Raise(request.json.exc)
         ELSE IF request.json.shape = "none" THEN None
         ELSE IF request.json.shape = "list" THEN Raise("AttributeError")
         ELSE Get(request.json.data, "ip")
    ELSE Get(request.args, "ip")

\* Mutation: the forwarded-for header is looked at first.
ResolvedIpForwardedFirst(request, supplied) ==
    IF "HTTP_X_FORWARDED_FOR" \in DOMAIN request.environ
    THEN request.environ["HTTP_X_FORWARDED_FOR"]
    ELSE IF Falsy(supplied) THEN request.remote_addr
    ELSE supplied

\* Lines 91-92: the IP that is resolved, given the one supplied.
ResolvedIp(request, supplied) ==
    IF Falsy(supplied)
    THEN GetDefault(request.environ, "HTTP_X_FORWARDED_FOR", request.remote_addr)
    ELSE supplied

\* Mutation: the first result is kept when it has a latitude.
KeptByLatitude(result) == Get(result, "latitude") # None

\* Line 100: the first result is kept when its success member is truthy.
Kept(result) == Get(result, "success") = True

----------------------------------------------------------------------------
(* Inputs *)

IPs == {S("8.8.8.8"), S("1.1.1.1")}

\* Provider names a caller passes: the registered ones and an unknown one.
ProviderNames == Registry \cup {"nonexistent"}

ProviderLists == UNION {[1..n -> ProviderNames] : n \in 0..MaxProviders}

KwargSets == {{}, {"api_key"}}

\* What get_json() does on the body of a POST.
JsonBodies ==
    { [exc |-> "BadRequest", shape |-> "none", data |-> EmptyDict],
      [exc |-> "", shape |-> "none", data |-> EmptyDict],
      [exc |-> "", shape |-> "list", data |-> EmptyDict],
      [exc |-> "", shape |-> "dict", data |-> EmptyDict],
      [exc |-> "", shape |-> "dict", data |-> [ip |-> S("")]],
      [exc |-> "", shape |-> "dict", data |-> [ip |-> S("1.1.1.1")]] }

QueryArgs == {EmptyDict, [ip |-> S("")], [ip |-> S("8.8.8.8")]}

Environs == {EmptyDict, [HTTP_X_FORWARDED_FOR |-> S("9.9.9.9")], [HTTP_X_FORWARDED_FOR |-> S("")]}

Requests ==
    [method : {"GET", "POST"}, args : QueryArgs, json : JsonBodies,
     environ : Environs, remote_addr : {S("10.0.0.1")}]

NoRequest ==
    [method |-> "", args |-> EmptyDict,
     json |-> [exc |-> "", shape |-> "none", data |-> EmptyDict],
     environ |-> EmptyDict, remote_addr |-> None]

----------------------------------------------------------------------------
(* State *)

VARIABLES
    pc,          \* "idle": no call made; "loop": inside the fallback loop; "done": the call is over
    op,          \* the operation called
    ip_address,  \* its ip_address
    providers,   \* the provider list of the call
    kwargs,      \* the keyword arguments handed to get_location
    idx,         \* position in providers of the next attempt
    result,      \* the dict returned (the JSON body for geolocate)
    raised,      \* TRUE when the call ended in an exception instead
    status,      \* HTTP status of the geolocate response, 0 otherwise
    request,     \* the request geolocate serves
    log,         \* the attempts made: position, provider, response received, result
    events       \* requests issued, responses received and sleeps, in order

vars == <<pc, op, ip_address, providers, kwargs, idx, result, raised, status, request, log, events>>

Ev(e, p, ip) == [e |-> e, p |-> p, ip |-> ip]

\* The events of one adapter call that reaches requests.get.
HttpEvents(provider, ip) == <<Ev("request", provider, ip), Ev("response", provider, ip)>>

Attempt(pos, provider, resp, res) == [pos |-> pos, provider |-> provider, resp |-> resp, res |-> res]

Init ==
    /\ pc = "idle"
    /\ op = "none"
    /\ ip_address = None
    /\ providers = <<>>
    /\ kwargs = {}
    /\ idx = 0
    /\ result = EmptyDict
    /\ raised = FALSE
    /\ status = 0
    /\ request = NoRequest
    /\ log = <<>>
    /\ events = <<>>

\* geo.get_location(ip, provider, **kw)
GetLocation ==
    /\ pc = "idle"
    /\ \E ip \in IPs, provider \in ProviderNames, kw \in KwargSets :
       \E resp \in Responses(provider) :
         LET r == get_location(ip, provider, kw, resp) IN
         /\ op' = "get_location"
         /\ ip_address' = ip
         /\ providers' = <<provider>>
         /\ kwargs' = kw
         /\ idx' = 1
         /\ raised' = IsExc(r)
         /\ result' = IF IsExc(r) THEN EmptyDict ELSE r
         /\ log' = <<Attempt(1, provider, resp, r)>>
         /\ events' = IF IssuesRequest(provider, kw) THEN HttpEvents(provider, ip) ELSE <<>>
         /\ pc' = "done"
    /\ UNCHANGED <<status, request>>

\* geo.get_location_with_fallback(ip, providers): entry, lines 63-64.
FallbackCall ==
    /\ pc = "idle"
    /\ \E ip \in IPs, given \in BOOLEAN, list \in ProviderLists :
         /\ ip_address' = ip
         /\ providers' = IF given THEN list ELSE DefaultProviders
    /\ op' = "get_location_with_fallback"
    /\ idx' = 1
    /\ pc' = "loop"
    /\ UNCHANGED <<kwargs, result, raised, status, request, log, events>>

\* One iteration of the loop, lines 66-75.
FallbackAttempt ==
    /\ pc = "loop"
    /\ idx <= Len(providers)
    /\ LET provider == providers[idx] IN
       \E resp \in Responses(provider) :
         LET r == get_location(ip_address, provider, FallbackKwargs, resp)
             http == IF IssuesRequest(provider, FallbackKwargs) THEN HttpEvents(provider, ip_address) ELSE <<>>
         IN
         /\ log' = Append(log, Attempt(idx, provider, resp, r))
         /\ IF IsExc(r)
            THEN /\ raised' = TRUE
                 /\ pc' = "done"
                 /\ events' = events \o http
                 /\ UNCHANGED <<result, idx>>
            ELSE IF Accepted(r)
            THEN /\ result' = Stamp(r, provider)
                 /\ pc' = "done"
                 /\ events' = events \o http
                 /\ UNCHANGED <<raised, idx>>
            ELSE /\ events' = (events \o http) \o <<Ev("sleep", provider, ip_address)>>
                 /\ idx' = NextPosition(idx, log')
                 /\ UNCHANGED <<result, raised, pc>>
    /\ UNCHANGED <<op, ip_address, providers, kwargs, status, request>>

\* The loop is over, line 77.
FallbackExhausted ==
    /\ pc = "loop"
    /\ idx > Len(providers)
    /\ result' = ExhaustedResult(log)
    /\ pc' = "done"
    /\ UNCHANGED <<op, ip_address, providers, kwargs, idx, raised, status, request, log, events>>

\* The /geolocate handler, lines 75-108.
Geolocate ==
    /\ pc = "idle"
    /\ \E req \in Requests, resp1 \in Responses("ip-api"), resp2 \in Responses("ipinfo") :
         LET supplied == SuppliedIp(req)
             ip == ResolvedIp(req, supplied)
             first == GeolocationService_get_location_ipapi(ip, resp1)
             second == GeolocationService_get_location_ipinfo(ip, resp2)
         IN
         /\ request' = req
         /\ IF IsExc(supplied)
            THEN /\ result' = [success |-> False, error |-> S(supplied.exc)]
                 /\ status' = 500
                 /\ ip_address' = None
                 /\ log' = <<>>
                 /\ events' = <<>>
            ELSE /\ status' = 200
                 /\ ip_address' = ip
                 /\ IF Kept(first)
                    THEN /\ result' = first
                         /\ log' = <<Attempt(1, "ip-api", resp1, first)>>
                         /\ events' = HttpEvents("ip-api", ip)
                    ELSE /\ result' = second
                         /\ log' = <<Attempt(1, "ip-api", resp1, first),
                                     Attempt(2, "ipinfo", resp2, second)>>
                         /\ events' = HttpEvents("ip-api", ip) \o HttpEvents("ipinfo", ip)
    /\ op' = "geolocate"
    /\ providers' = <<"ip-api", "ipinfo">>
    /\ pc' = "done"
    /\ UNCHANGED <<kwargs, idx, raised>>

Next ==
    \/ GetLocation
    \/ FallbackCall
    \/ FallbackAttempt
    \/ FallbackExhausted
    \/ Geolocate

Spec == Init /\ [][Next]_vars

----------------------------------------------------------------------------
(* get_location_with_fallback step by step: the call blocks in            *)
(* requests.get until the response (or the transport fault) arrives, and   *)
(* in time.sleep.  pc = "waiting": a request is out; pc = "sleep": the     *)
(* attempt was rejected and line 75 is next.                               *)

\* What the log holds for an attempt that never got a response.
NoResponse == [exc |-> "", shape |-> "none", data |-> EmptyDict]

\* Lines 70-72 on the result r of the attempt at providers[idx].
Conclude(provider, resp, r) ==
    /\ log' = Append(log, Attempt(idx, provider, resp, r))
    /\ IF IsExc(r)
       THEN /\ raised' = TRUE
            /\ pc' = "done"
            /\ UNCHANGED result
       ELSE IF Accepted(r)
       THEN /\ result' = Stamp(r, provider)
            /\ pc' = "done"
            /\ UNCHANGED raised
       ELSE /\ pc' = "sleep"
            /\ UNCHANGED <<result, raised>>

\* Lines 66-68 up to the adapter's requests.get: the request goes out, or
\* get_location returns without one (unknown provider, arguments that do
\* not bind).
AttemptStart ==
    /\ pc = "loop"
    /\ idx <= Len(providers)
    /\ LET provider == providers[idx] IN
       IF IssuesRequest(provider, FallbackKwargs)
       THEN /\ events' = Append(events, Ev("request", provider, ip_address))
            /\ pc' = "waiting"
            /\ UNCHANGED <<result, raised, log>>
       ELSE /\ Conclude(provider, NoResponse,
                        get_location(ip_address, provider, FallbackKwargs, NoResponse))
            /\ UNCHANGED events
    /\ UNCHANGED <<op, ip_address, providers, kwargs, idx, status, request>>

\* requests.get returns or raises; the adapter and get_location finish,
\* lines 68-72.
AttemptResponse ==
    /\ pc = "waiting"
    /\ LET provider == providers[idx] IN
       \E resp \in Responses(provider) :
         /\ events' = Append(events, Ev("response", provider, ip_address))
         /\ Conclude(provider, resp, get_location(ip_address, provider, FallbackKwargs, resp))
    /\ UNCHANGED <<op, ip_address, providers, kwargs, idx, status, request>>

\* time.sleep(0.5) and the next turn of the loop, lines 75 and 66.
AttemptSleep ==
    /\ pc = "sleep"
    /\ events' = Append(events, Ev("sleep", providers[idx], ip_address))
    /\ idx' = NextPosition(idx, log)
    /\ pc' = "loop"
    /\ UNCHANGED <<op, ip_address, providers, kwargs, result, raised, status, request, log>>

NextSteps ==
    \/ FallbackCall
    \/ AttemptStart
    \/ AttemptResponse
    \/ AttemptSleep
    \/ FallbackExhausted

\* The call runs on one thread: each step is taken once it can be, and
\* requests.get (timeout=10) and time.sleep return.
SpecSteps == Init /\ [][NextSteps]_vars /\ WF_vars(NextSteps)

----------------------------------------------------------------------------
(* Vocabulary of the properties *)

FallbackOp == op = "get_location_with_fallback"
FallbackDone == FallbackOp /\ pc = "done"
GetLocationDone == op = "get_location" /\ pc = "done"
GeolocateDone == op = "geolocate" /\ pc = "done"

\* A result with no 'error' key and a latitude that is present and not null.
HasLocation(res) ==
    /\ "error" \notin DOMAIN res
    /\ "latitude" \in DOMAIN res
    /\ res["latitude"].t # "null"

\* The HTTP requests issued so far, in order.
RequestsIssued == SelectSeq(events, LAMBDA ev : ev.e = "request")
SleepsTaken == SelectSeq(events, LAMBDA ev : ev.e = "sleep")

\* The positions of the provider list for which a request was issued are
\* exactly the attempted positions whose provider is in `asked`, once each
\* and in list order.
RequestsMatch(asked) ==
    LET pos == SelectSeq([i \in 1..Len(log) |-> i], LAMBDA i : providers[i] \in asked) IN
    /\ Len(RequestsIssued) = Len(pos)
    /\ \A j \in 1..Len(pos) : RequestsIssued[j].p = providers[pos[j]]

UnknownProviderError(name) == [error |-> S("Unknown provider: " \o name)]

----------------------------------------------------------------------------
\* C1: get_location_with_fallback returns the result of the first provider,
\* in list order, whose get_location result has no error and a non-null
\* latitude, stamped with provider_used = that provider; the providers
\* before it were each attempted exactly once, in order, and no provider
\* after it is attempted or sent a request.
C1_FirstAcceptedWins ==
    FallbackOp =>
      /\ ~raised
      /\ Len(log) <= Len(providers)
      /\ \A i \in 1..Len(log) : log[i].pos = i /\ log[i].provider = providers[i]
      /\ \A i \in 1..(Len(log) - 1) : ~HasLocation(log[i].res)
      /\ RequestsMatch({"ip-api", "ipinfo", "ipgeolocation"})
      /\ pc = "loop" => \A i \in 1..Len(log) : ~HasLocation(log[i].res)
      /\ (pc = "done" /\ \E i \in 1..Len(log) : HasLocation(log[i].res)) =>
            LET k == Len(log) IN
            /\ DOMAIN result = DOMAIN log[k].res \cup {"provider_used"}
            /\ result["provider_used"] = S(providers[k])
            /\ \A f \in DOMAIN log[k].res : result[f] = log[k].res[f]
      /\ (pc = "done" /\ \A i \in 1..Len(log) : ~HasLocation(log[i].res)) =>
            /\ Len(log) = Len(providers)
            /\ "provider_used" \notin DOMAIN result

\* A call that succeeded on the second provider of a longer list, after the
\* first one failed.
C1_Witness ==
    /\ FallbackDone
    /\ Len(log) = 2
    /\ Len(providers) > 2
    /\ ~HasLocation(log[1].res)
    /\ HasLocation(log[2].res)
    /\ "provider_used" \in DOMAIN result

\* C2: when no provider of the list yields an accepted result (the list may
\* be empty or hold only unknown names), the result is exactly
\* {error: 'All providers failed'}.
C2_ExhaustionError ==
    (FallbackDone /\ \A i \in 1..Len(log) : ~HasLocation(log[i].res)) =>
        result = [error |-> S("All providers failed")]

\* A call that exhausted its list although a provider answered with a
\* record (with a null latitude) and another with an error of its own.
C2_Witness ==
    /\ FallbackDone
    /\ Len(log) = 2
    /\ "ip" \in DOMAIN log[1].res
    /\ "error" \in DOMAIN log[2].res
    /\ "error" \in DOMAIN result

\* C3: the result of get_location_with_fallback never has both an 'error'
\* key and a non-null latitude.
C3_NoErrorWithLatitude ==
    FallbackDone =>
        ~("error" \in DOMAIN result /\ "latitude" \in DOMAIN result /\ result["latitude"].t # "null")

\* A call that returned coordinates after an attempt that ended in an error.
C3_Witness ==
    /\ FallbackDone
    /\ Len(log) = 2
    /\ "error" \in DOMAIN log[1].res
    /\ "latitude" \in DOMAIN result
    /\ result["latitude"].t # "null"

\* C4: after get_location, exactly one of (a) latitude and longitude present
\* and non-null without error, (b) error present without latitude and
\* longitude, holds of the result.
C4_CoordinatesXorError ==
    GetLocationDone =>
        LET a == /\ "error" \notin DOMAIN result
                 /\ "latitude" \in DOMAIN result /\ result["latitude"].t # "null"
                 /\ "longitude" \in DOMAIN result /\ result["longitude"].t # "null"
            b == /\ "error" \in DOMAIN result
                 /\ "latitude" \notin DOMAIN result
                 /\ "longitude" \notin DOMAIN result
        IN (a \/ b) /\ ~(a /\ b)

\* C5: an unknown provider name yields exactly {error: 'Unknown provider:
\* <name>'} and no HTTP request, in get_location and in each attempt of
\* get_location_with_fallback, which then goes on to the next provider.
C5_UnknownProvider ==
    /\ (GetLocationDone /\ providers[1] \notin Registry) =>
          /\ result = UnknownProviderError(providers[1])
          /\ events = <<>>
    /\ FallbackOp =>
          /\ \A i \in 1..Len(log) :
                providers[i] \notin Registry =>
                   /\ log[i].res = UnknownProviderError(providers[i])
                   /\ idx > i
          /\ \A j \in 1..Len(events) : events[j].e = "request" => events[j].p \in Registry
          /\ pc = "done" => \A i \in 1..Len(providers) :
                (providers[i] \notin Registry /\ i <= Len(log) /\ i < Len(providers)) => Len(log) > i

\* A fallback call whose first provider is unknown and whose second one
\* was then asked and accepted.
C5_Witness ==
    /\ FallbackDone
    /\ Len(log) = 2
    /\ providers[1] \notin Registry
    /\ "provider_used" \in DOMAIN result
    /\ Len(RequestsIssued) = 1

----------------------------------------------------------------------------
(* Failure kinds of an adapter call *)

LabelOf(provider) ==
    CASE provider = "ip-api" -> "IP-API"
      [] provider = "ipinfo" -> "IPInfo"
      [] provider = "ipgeolocation" -> "IPGeolocation"
      [] provider = "abstractapi" -> "AbstractAPI"
      [] provider = "ipstack" -> "IPStack"

ExceptionNames ==
    {"ConnectionError", "Timeout", "JSONDecodeError", "TypeError", "KeyError",
     "AttributeError", "ValueError"}

\* The error message carries the provider's label.
Annotated(res, provider) ==
    \E e \in ExceptionNames : res["error"] = S(LabelOf(provider) \o " error: " \o e)

\* Transport failure, timeout or a body that is not JSON.
RequestFault(resp) == resp.exc # ""

\* A JSON object in which the provider reports that it has no location.
ReportedFailure(provider, resp) ==
    /\ resp.exc = ""
    /\ resp.shape = "dict"
    /\ CASE provider = "ip-api" ->
              "status" \in DOMAIN resp.data /\ resp.data["status"] # S("success")
         [] provider = "ipinfo" -> "loc" \notin DOMAIN resp.data
         [] provider = "ipstack" ->
              /\ "latitude" \notin DOMAIN resp.data
              /\ "error" \in DOMAIN resp.data => resp.data["error"].t = "obj"
         [] OTHER -> "latitude" \notin DOMAIN resp.data

\* The message of a reported failure: the provider's own, or a fixed text.
ReportedMessage(provider, resp) ==
    CASE provider = "ip-api" ->
           IF "message" \in DOMAIN resp.data THEN resp.data["message"] ELSE S("Unknown error")
      [] provider = "ipstack" ->
           IF "error" \in DOMAIN resp.data THEN S(resp.data["error"].v) ELSE S("Unknown error")
      [] OTHER -> S("Location data not available")

\* Attempt i of a library call got as far as the adapter's request.
ReachedAdapter(i) ==
    /\ op \in {"get_location", "get_location_with_fallback"}
    /\ log[i].provider \in Registry
    /\ log[i].provider \in {"abstractapi", "ipstack"} => "api_key" \in kwargs

\* C6 as claimed: on every failure kind the adapter's result has the error
\* field only and an error message annotated with the provider's name.
C6_EveryFailureAnnotated ==
    \A i \in 1..Len(log) :
        (ReachedAdapter(i) /\ (RequestFault(log[i].resp) \/ ReportedFailure(log[i].provider, log[i].resp))) =>
            /\ DOMAIN log[i].res = {"error"}
            /\ Annotated(log[i].res, log[i].provider)

\* C6 as amended: on a transport failure, a timeout or a non-JSON body the
\* adapter's result has the error field only, with a message that carries
\* the provider's label; on a failure the provider reports in its JSON body
\* the result has the error field only as well, but the message is the
\* provider's own message or a fixed text, without the provider's label.
C6_FailuresErrorOnly ==
    \A i \in 1..Len(log) :
        ReachedAdapter(i) =>
            /\ RequestFault(log[i].resp) =>
                  /\ DOMAIN log[i].res = {"error"}
                  /\ log[i].res["error"] = S(LabelOf(log[i].provider) \o " error: " \o log[i].resp.exc)
            /\ ReportedFailure(log[i].provider, log[i].resp) =>
                  /\ DOMAIN log[i].res = {"error"}
                  /\ log[i].res["error"] = ReportedMessage(log[i].provider, log[i].resp)
                  /\ ~Annotated(log[i].res, log[i].provider)

\* ip-api timed out in a get_location call.
C6_Witness ==
    /\ GetLocationDone
    /\ providers = <<"ip-api">>
    /\ log[1].resp.exc = "Timeout"
    /\ "error" \in DOMAIN result

\* C7: no call ends in an exception: get_location returns an error result
\* where the adapter call raises (a key-required adapter called without its
\* api_key included, which issues no request), and get_location_with_fallback
\* always ends with an accepted result or after the whole list.
C7_NothingPropagates ==
    /\ ~raised
    /\ pc = "done" => DOMAIN result # {}
    /\ (GetLocationDone /\ providers[1] \in {"abstractapi", "ipstack"} /\ "api_key" \notin kwargs) =>
          /\ DOMAIN result = {"error"}
          /\ events = <<>>
    /\ FallbackDone =>
          \/ "provider_used" \in DOMAIN result
          \/ Len(log) = Len(providers) /\ DOMAIN result = {"error"}

\* get_location('abstractapi') without api_key has returned.
C7_Witness ==
    /\ GetLocationDone
    /\ providers = <<"abstractapi">>
    /\ kwargs = {}
    /\ "error" \in DOMAIN result

----------------------------------------------------------------------------
(* /geolocate against the resolver *)

\* A result with the boolean success flag added: true when no error.
WithSuccess(res) ==
    [k \in DOMAIN res \cup {"success"} |->
        IF k = "success" THEN (IF "error" \in DOMAIN res THEN False ELSE True) ELSE res[k]]

TwoProviders == <<"ip-api", "ipinfo">>

\* The fields the endpoint's adapters and the resolver's adapters share.
SharedFields == {"ip", "latitude", "longitude", "city", "country", "region", "timezone", "provider"}

SameLocation(body, res) ==
    /\ DOMAIN body = SharedFields \cup {"success"}
    /\ body["success"] = True
    /\ \A f \in SharedFields : body[f] = res[f]

\* C8 as claimed: the body of geolocate is the result of
\* get_location_with_fallback(ip, ['ip-api', 'ipinfo']) on the same
\* responses with the success flag added, and ipinfo is contacted exactly
\* when the ip-api result fails the resolver's acceptance test.
C8_EndpointIsResolverFallback ==
    (GeolocateDone /\ status = 200) =>
        /\ Len(log) = 2 <=> ~HasLocation(get_location(ip_address, "ip-api", {}, log[1].resp))
        /\ \A resp2 \in (IF Len(log) = 2 THEN {log[2].resp} ELSE Responses("ipinfo")) :
              result = WithSuccess(get_location_with_fallback(ip_address, TwoProviders, <<log[1].resp, resp2>>))

\* C8 as amended: geolocate runs a fallback of its own over ip-api and
\* ipinfo.  Its success flag is true exactly when the body has no error.
\* ipinfo is contacted exactly when the ip-api result carries an error; an
\* ip-api result without error is kept even with a null latitude, where the
\* resolver would go on.  When the resolver's get_location accepts ip-api,
\* or fails ip-api with an error and accepts ipinfo, the body is that
\* provider's location (the shared fields, no provider_used); when both
\* fail with an error the body is {success: false, error} with ipinfo's own
\* error, never 'All providers failed'.
C8_EndpointOwnFallback ==
    GeolocateDone =>
        /\ result["success"] = True <=> "error" \notin DOMAIN result
        /\ result["success"] \in {True, False}
        /\ status = 200 =>
            LET first == get_location(ip_address, "ip-api", {}, log[1].resp) IN
            /\ Len(log) = 2 <=> "error" \in DOMAIN first
            /\ Len(RequestsIssued) = Len(log)
            /\ HasLocation(first) => SameLocation(result, first)
            /\ ("error" \notin DOMAIN first /\ ~HasLocation(first)) =>
                  /\ result["success"] = True
                  /\ result["provider"] = S("ip-api")
                  /\ result["latitude"] = None
            /\ "error" \in DOMAIN first =>
                  LET second == get_location(ip_address, "ipinfo", {}, log[2].resp) IN
                  /\ HasLocation(second) => SameLocation(result, second)
                  /\ ~HasLocation(second) =>
                        /\ DOMAIN result = {"success", "error"}
                        /\ result["error"] # S("All providers failed")

\* geolocate kept an ip-api answer that has no latitude.
C8_Witness ==
    /\ GeolocateDone
    /\ status = 200
    /\ Len(log) = 1
    /\ result["success"] = True
    /\ result["latitude"] = None

\* C9: the IP geolocate resolves is the 'ip' query parameter on GET and the
\* 'ip' member of the JSON body on POST; when that is absent or empty, the
\* X-Forwarded-For header if the request has one, else the connection
\* address.
C9_ResolvedIpChoice ==
    (GeolocateDone /\ status = 200) =>
        LET supplied == IF request.method = "POST" THEN request.json.data ELSE request.args
            given == "ip" \in DOMAIN supplied /\ supplied["ip"] # S("")
            expected == IF given THEN supplied["ip"]
                        ELSE IF "HTTP_X_FORWARDED_FOR" \in DOMAIN request.environ
                             THEN request.environ["HTTP_X_FORWARDED_FOR"]
                             ELSE request.remote_addr
        IN /\ ip_address = expected
           /\ events # <<>>
           /\ \A j \in 1..Len(events) : events[j].ip = expected

\* A POST that supplies an IP in its body next to a forwarded-for header
\* and a different 'ip' query parameter.
C9_Witness ==
    /\ GeolocateDone
    /\ status = 200
    /\ request.method = "POST"
    /\ "ip" \in DOMAIN request.json.data
    /\ request.json.data["ip"] = S("1.1.1.1")
    /\ "ip" \in DOMAIN request.args
    /\ request.args["ip"] = S("8.8.8.8")
    /\ "HTTP_X_FORWARDED_FOR" \in DOMAIN request.environ
    /\ request.environ["HTTP_X_FORWARDED_FOR"] = S("9.9.9.9")
    /\ ip_address = S("1.1.1.1")

\* C10: the delay is taken only between an unsuccessful attempt and the
\* next attempt: a call that made k attempts has taken k - 1 delays, and the
\* last thing it did before returning is not a delay.
C10_DelayOnlyBetweenAttempts ==
    FallbackDone =>
        /\ Len(SleepsTaken) = (IF Len(log) = 0 THEN 0 ELSE Len(log) - 1)
        /\ events # <<>> => events[Len(events)].e # "sleep"

----------------------------------------------------------------------------
(* The order of the attempts and of their requests *)

ResponsesReceived == SelectSeq(events, LAMBDA ev : ev.e = "response")
HttpTraffic == SelectSeq(events, LAMBDA ev : ev.e \in {"request", "response"})

\* Requests out and not yet answered.
InFlight == Len(RequestsIssued) - Len(ResponsesReceived)

\* Within one get_location_with_fallback call: the attempts are the list
\* positions 1, 2, ... in order, each once; requests and responses
\* alternate, so a request goes out only when the previous one is answered
\* and at most one is in flight; the requests are those of the attempts
\* begun, one each at most; and the call ends with an accepted result or
\* with the exhaustion error after the whole list.
C11_Order ==
    FallbackOp =>
        LET begun == Len(log) + InFlight
            asking == SelectSeq([i \in 1..begun |-> i],
                                LAMBDA i : providers[i] \in {"ip-api", "ipinfo", "ipgeolocation"})
        IN
        /\ Len(log) <= Len(providers)
        /\ begun <= Len(providers)
        /\ \A i \in 1..Len(log) : log[i].pos = i /\ log[i].provider = providers[i]
        /\ \A j \in 1..Len(HttpTraffic) :
              /\ HttpTraffic[j].e = (IF j % 2 = 1 THEN "request" ELSE "response")
              /\ j % 2 = 0 => HttpTraffic[j].p = HttpTraffic[j - 1].p
        /\ InFlight \in {0, 1}
        /\ InFlight = 1 <=> pc = "waiting"
        /\ Len(RequestsIssued) = Len(asking)
        /\ \A j \in 1..Len(asking) : RequestsIssued[j].p = providers[asking[j]]
        /\ pc = "done" =>
              \/ "provider_used" \in DOMAIN result /\ HasLocation(log[Len(log)].res)
              \/ result = [error |-> S("All providers failed")] /\ Len(log) = Len(providers)

\* C11: within one get_location_with_fallback call over n provider names
\* the attempts happen in list order, each position at most once, each with
\* at most one HTTP request, a request only once the previous one has
\* completed, and the call ends after at most n attempts with an accepted
\* result or the exhaustion error.
C11_SequentialAttempts == []C11_Order /\ <>(pc = "done")

\* A second request is out, after the first one was answered and rejected.
C11_Witness ==
    /\ FallbackOp
    /\ pc = "waiting"
    /\ Len(RequestsIssued) = 2
    /\ Len(ResponsesReceived) = 1
    /\ Len(log) = 1

----------------------------------------------------------------------------
\* C12: get_location_with_fallback hands no credentials to get_location, so
\* an attempt on 'abstractapi' or 'ipstack' ends in an error result without
\* any HTTP request, is followed by the delay and by the next position of
\* the list, and such a provider is never the accepted one.
C12_KeyRequiredNeverAccepted ==
    FallbackOp =>
        LET keyed(i) == providers[i] \in {"abstractapi", "ipstack"} IN
        /\ \A i \in 1..Len(log) :
              keyed(i) =>
                 /\ DOMAIN log[i].res = {"error"}
                 /\ idx > i
        /\ \A j \in 1..Len(events) :
              events[j].e \in {"request", "response"} => events[j].p \notin {"abstractapi", "ipstack"}
        /\ Len(SelectSeq(SleepsTaken, LAMBDA ev : ev.p \in {"abstractapi", "ipstack"}))
              = Len(SelectSeq(log, LAMBDA a : a.provider \in {"abstractapi", "ipstack"}))
        /\ "provider_used" \in DOMAIN result =>
              result["provider_used"] \notin {S("abstractapi"), S("ipstack")}
        /\ pc = "done" => \A i \in 1..Len(providers) :
              (keyed(i) /\ i <= Len(log) /\ i < Len(providers)) => Len(log) > i

\* A list that starts with abstractapi: its attempt failed and the next
\* provider was asked and accepted.
C12_Witness ==
    /\ FallbackDone
    /\ Len(log) = 2
    /\ providers[1] = "abstractapi"
    /\ Len(SleepsTaken) = 1
    /\ Len(RequestsIssued) = 1
    /\ "provider_used" \in DOMAIN result

====
